---- MODULE Spec2Model ----
(***************************************************************************)
(* A model of the limit order book of Source.cpp: class OrderBook with its *)
(* price-level maps bids_ and asks_, its registry orders_, the private     *)
(* CanMatch and MatchOrders, and the public AddOrder, CancelOrder,         *)
(* MatchOrder (the modify operation) and GetOrderInfos.                    *)
(*                                                                         *)
(* An order is a record with the fields of class Order.  A level queue     *)
(* (std::list<OrderPointer>) is a sequence of orders, front first.  A side *)
(* (std::map<Price, OrderPointers>) is a function whose DOMAIN is the set  *)
(* of prices that have a level.  The registry (std::unordered_map<OrderId, *)
(* OrderEntry>) is the set of its keys: an entry holds the same shared     *)
(* Order object as the queue node and an iterator to that node, so it      *)
(* carries no data of its own.                                             *)
(*                                                                         *)
(* Reads through dangling references.  MatchOrders, CancelOrder and        *)
(* MatchOrder read through references to storage they have just released   *)
(* (lines 213, 217, 223-224, 203, 279-288, 299).  Such a read is modelled  *)
(* as a choice: it yields the value last stored there, or, where it ends   *)
(* in a scalar field, any value of that field's type, or the program       *)
(* faults.  The variable ub records which: "ok" while every such read has  *)
(* returned the stale value, "diverged" once one has not, and the names of *)
(* the ways a call can end without returning.  A run follows at most one   *)
(* divergent read, and no call is made after a call that did not end "ok". *)
(***************************************************************************)
EXTENDS Integers, Sequences, FiniteSets, TLC

\* Bounds of the model.
MaxId == 3
MaxPrice == 2
MaxQty == 2
MaxCalls == 4

OrderIds == 1..MaxId
Prices == 1..MaxPrice
\* Quantities are counted in lots of 2^30: the program only adds, subtracts
\* and compares them, so what it does with whole lots is what the model does
\* with their counts.  Quantity is std::uint32_t, which has 2^32 values: four
\* lots.
QuantityRange == 4
Quantities == {q \in 0..MaxQty : q < QuantityRange}
\* An id read from released storage: any id in use, or one that is not (0).
GarbageIds == 0..MaxId

OrderType == {"GoodTillCancel", "FillAndKill"}
Side == {"Buy", "Sell"}

VARIABLES
    bids_,      \* OrderBook::bids_ : price -> queue, best is the highest price
    asks_,      \* OrderBook::asks_ : price -> queue, best is the lowest price
    orders_,    \* OrderBook::orders_ : the registered order ids
    trades,     \* the Trades returned by the last call
    fills,      \* history: the fills the last call's matching loop asked for
    last,       \* the last call
    ub,         \* how the last call ended
    calls,      \* the number of calls made so far
    infos       \* the OrderBookLevelInfos returned by the last call

vars == <<bids_, asks_, orders_, trades, fills, last, ub, calls, infos>>

Order(order_type, order_id, side, price, quantity) ==
    [order_type_ |-> order_type, order_id_ |-> order_id, side_ |-> side,
     price_ |-> price, initial_quantity_ |-> quantity,
     remaining_quantity_ |-> quantity]

IsFilled(order) == order.remaining_quantity_ = 0

\* Order::Fill: throws before changing anything when quantity > remaining.
Fill(order, quantity) ==
    IF quantity > order.remaining_quantity_
    THEN [thrown |-> TRUE, order |-> order]
    ELSE [thrown |-> FALSE,
          order |-> [order EXCEPT !.remaining_quantity_ = @ - quantity]]

ToOrderPointer(modify, type) ==
    Order(type, modify.order_id_, modify.side_, modify.price_, modify.quantity_)

TradeInfo(order_id, price, quantity) ==
    [order_id_ |-> order_id, price_ |-> price, quanity_ |-> quantity]

Trade(bid_trade, ask_trade) ==
    [bid_trade_ |-> bid_trade, ask_trade_ |-> ask_trade]

\* The bid's remaining quantity taken as the quantity to match.
MinFirst(a, b) == a
\* The larger of the two remaining quantities taken as the quantity to match.
Larger(a, b) == IF a < b THEN b ELSE a
Min(a, b) == IF a < b THEN a ELSE b
MaxOf(S) == CHOOSE x \in S : \A y \in S : y <= x
MinOf(S) == CHOOSE x \in S : \A y \in S : x <= y

\* The bids ordered like the asks (std::less in place of std::greater).
BestBidLess(bids) == MinOf(DOMAIN bids)
\* std::map<Price, ..., std::greater<Price>>::begin and std::less::begin
BestBid(bids) == MaxOf(DOMAIN bids)
\* The asks ordered like the bids (std::greater in place of std::less).
BestAskGreater(asks) == MaxOf(DOMAIN asks)
BestAsk(asks) == MinOf(DOMAIN asks)

\* std::map::erase(key)
EraseLevel(levels, price) == [p \in (DOMAIN levels) \ {price} |-> levels[p]]

\* The new order put at the front of its level (push_front).
PushFront(levels, price, order) ==
    [p \in (DOMAIN levels) \cup {price} |->
        IF p \in DOMAIN levels
        THEN (IF p = price THEN <<order>> \o levels[p] ELSE levels[p])
        ELSE <<order>>]

\* std::map::operator[] followed by std::list::push_back
PushBack(levels, price, order) ==
    [p \in (DOMAIN levels) \cup {price} |->
        IF p \in DOMAIN levels
        THEN (IF p = price THEN Append(levels[p], order) ELSE levels[p])
        ELSE <<order>>]

\* std::list::erase(iterator) for the node at position i
EraseAt(queue, i) == SubSeq(queue, 1, i - 1) \o SubSeq(queue, i + 1, Len(queue))

Size(orders) == Cardinality(orders)

\* CanMatch with both comparisons turned round.
CanMatchTurned(bids, asks, side, price) ==
    IF side = "Buy"
    THEN (IF DOMAIN asks = {} THEN FALSE ELSE price <= BestAsk(asks))
    ELSE (IF DOMAIN bids = {} THEN FALSE ELSE price >= BestBid(bids))

CanMatch(bids, asks, side, price) ==
    IF side = "Buy"
    THEN (IF DOMAIN asks = {} THEN FALSE ELSE price >= BestAsk(asks))
    ELSE (IF DOMAIN bids = {} THEN FALSE ELSE price <= BestBid(bids))

\* The book a call works on, with what the call has produced so far.
Book(bids, asks, orders) ==
    [bids |-> bids, asks |-> asks, orders |-> orders,
     trades |-> <<>>, fills |-> <<>>, ub |-> "ok"]

\* What a read through a dangling reference can yield: the stale value, or,
\* while no read has diverged yet, any other value of the type.
Dangling(stale, type, st) ==
    IF st.ub = "ok" THEN {stale} \cup type ELSE {stale}

Diverge(st, read, stale) ==
    IF read = stale THEN st ELSE [st EXCEPT !.ub = "diverged"]

\* Lines 211-225 for one choice of what the dangling reads return: eb and ea
\* are the ids handed to orders_.erase, tb and ta the <<id, price>> pairs put
\* in the two legs of the trade record.
Settle(st, bid_price, ask_price, bid, ask, quantity, eb, ea, tb, ta) ==
    LET bids == st.bids[bid_price]
        asks == st.asks[ask_price]
        bids1 == IF IsFilled(bid) THEN Tail(bids) ELSE <<bid>> \o Tail(bids)
        asks1 == IF IsFilled(ask) THEN Tail(asks) ELSE <<ask>> \o Tail(asks)
        orders1 == IF IsFilled(bid) THEN st.orders \ {eb} ELSE st.orders
        orders2 == IF IsFilled(ask) THEN orders1 \ {ea} ELSE orders1
    IN  [st EXCEPT
            !.bids = IF bids1 = <<>> THEN EraseLevel(st.bids, bid_price)
                     ELSE [st.bids EXCEPT ![bid_price] = bids1],
            !.asks = IF asks1 = <<>> THEN EraseLevel(st.asks, ask_price)
                     ELSE [st.asks EXCEPT ![ask_price] = asks1],
            !.orders = orders2,
            !.trades = Append(st.trades,
                Trade(TradeInfo(tb[1], tb[2], quantity),
                      TradeInfo(ta[1], ta[2], quantity)))]

\* The ways lines 211-225 can fault: bid or ask is dereferenced after its
\* node was popped (213, 217, 223-224).
SettleFaults(st, bid_price, ask_price, bid, ask) ==
    LET bids == st.bids[bid_price]
        asks == st.asks[ask_price]
        popBid == [st EXCEPT !.bids[bid_price] = Tail(bids), !.ub = "fault"]
        keepBid == [st EXCEPT !.bids[bid_price] = <<bid>> \o Tail(bids),
                              !.ub = "fault"]
        doneBid == IF IsFilled(bid)
                   THEN [popBid EXCEPT !.orders = @ \ {bid.order_id_}]
                   ELSE keepBid
    IN  (IF IsFilled(bid) THEN {popBid} ELSE {})
        \cup (IF IsFilled(ask)
              THEN {[doneBid EXCEPT !.asks[ask_price] = Tail(asks)]}
              ELSE {})

\* One pass of the body of the inner loop, lines 204-225.
MatchBody(st, bid_price, ask_price) ==
    LET bids == st.bids[bid_price]
        asks == st.asks[ask_price]
        quantity == Min(Head(bids).remaining_quantity_,
                        Head(asks).remaining_quantity_)
        fb == Fill(Head(bids), quantity)
        fa == Fill(Head(asks), quantity)
        bid == fb.order
        ask == fa.order
        sb == <<bid.order_id_, bid.price_>>
        sa == <<ask.order_id_, ask.price_>>
        filled == [st EXCEPT !.fills = Append(@,
                      [bid |-> Head(bids), ask |-> Head(asks),
                       quantity |-> quantity])]
        legb == {<<i, bid.price_>> : i \in GarbageIds} \cup {<<bid.order_id_, p>> : p \in Prices}
        lega == {<<i, ask.price_>> : i \in GarbageIds} \cup {<<ask.order_id_, p>> : p \in Prices}
    IN  IF fb.thrown THEN {[filled EXCEPT !.ub = "logic_error"]}
        ELSE IF fa.thrown
        THEN {[filled EXCEPT !.bids[bid_price] = <<bid>> \o Tail(bids),
                             !.ub = "logic_error"]}
        ELSE {Settle(filled, bid_price, ask_price, bid, ask, quantity,
                     bid.order_id_, ask.order_id_, sb, sa)}
          \cup (IF IsFilled(bid)
                THEN {Diverge(Settle(filled, bid_price, ask_price, bid, ask,
                          quantity, eb, ask.order_id_, sb, sa), eb, bid.order_id_)
                        : eb \in Dangling(bid.order_id_, GarbageIds, st)}
                  \cup {Diverge(Settle(filled, bid_price, ask_price, bid, ask,
                          quantity, bid.order_id_, ask.order_id_, tb, sa), tb, sb)
                        : tb \in Dangling(sb, legb, st)}
                ELSE {})
          \cup (IF IsFilled(ask)
                THEN {Diverge(Settle(filled, bid_price, ask_price, bid, ask,
                          quantity, bid.order_id_, ea, sb, sa), ea, ask.order_id_)
                        : ea \in Dangling(ask.order_id_, GarbageIds, st)}
                  \cup {Diverge(Settle(filled, bid_price, ask_price, bid, ask,
                          quantity, bid.order_id_, ask.order_id_, sb, ta), ta, sa)
                        : ta \in Dangling(sa, lega, st)}
                ELSE {})
          \cup SettleFaults(filled, bid_price, ask_price, bid, ask)

\* Lines 228-242: the best bid and the best ask are inspected, and the calls
\* that would cancel them are commented out.
KillResidue(st) == st

RECURSIVE InnerLoop(_, _, _)
RECURSIVE OuterLoop(_)

\* The inner while of lines 203-226 on the levels bound at lines 198-199.
\* Once a level has been erased (219, 220) its size is read from a destroyed
\* list: zero leaves the loop, anything else makes the body take the front of
\* that list.
InnerLoop(st, bid_price, ask_price) ==
    IF st.ub \notin {"ok", "diverged"} THEN {st}
    ELSE IF bid_price \notin DOMAIN st.bids \/ ask_price \notin DOMAIN st.asks
    THEN OuterLoop(st) \cup {[st EXCEPT !.ub = "fault"]}
    ELSE IF Len(st.bids[bid_price]) > 0 /\ Len(st.asks[ask_price]) > 0
    THEN UNION {InnerLoop(s, bid_price, ask_price)
                  : s \in MatchBody(st, bid_price, ask_price)}
    ELSE OuterLoop(st)

\* The outer while of lines 195-227.
OuterLoop(st) ==
    IF DOMAIN st.bids = {} \/ DOMAIN st.asks = {} THEN {st}
    ELSE IF BestBid(st.bids) < BestAsk(st.asks) THEN {st}
    ELSE InnerLoop(st, BestBid(st.bids), BestAsk(st.asks))

MatchOrders(st) ==
    {IF s.ub \in {"ok", "diverged"} THEN KillResidue(s) ELSE s : s \in OuterLoop(st)}

\* AddOrder without the check of lines 247-249.
AddOrderUnchecked(bk, order) ==
    IF order.order_type_ = "FillAndKill"
       /\ ~CanMatch(bk.bids, bk.asks, order.side_, order.price_)
    THEN {bk}
    ELSE MatchOrders(
            IF order.side_ = "Buy"
            THEN [bk EXCEPT !.bids = PushBack(bk.bids, order.price_, order),
                            !.orders = @ \cup {order.order_id_}]
            ELSE [bk EXCEPT !.asks = PushBack(bk.asks, order.price_, order),
                            !.orders = @ \cup {order.order_id_}])

\* OrderBook::AddOrder on the book bk: the set of ways the call can end.
AddOrderTo(bk, order) ==
    IF order.order_id_ \in bk.orders THEN {bk}
    ELSE IF order.order_type_ = "FillAndKill"
            /\ ~CanMatch(bk.bids, bk.asks, order.side_, order.price_)
    THEN {bk}
    ELSE MatchOrders(
            IF order.side_ = "Buy"
            THEN [bk EXCEPT !.bids = PushBack(bk.bids, order.price_, order),
                            !.orders = @ \cup {order.order_id_}]
            ELSE [bk EXCEPT !.asks = PushBack(bk.asks, order.price_, order),
                            !.orders = @ \cup {order.order_id_}])

\* Where the registry entry of order_id points: the nodes of the index that
\* hold the order with that id, as <<side, price, position>>.
Location(bk, order_id) ==
    UNION {{<<"Buy", p, i>> : i \in {j \in 1..Len(bk.bids[p]) :
                bk.bids[p][j].order_id_ = order_id}} : p \in DOMAIN bk.bids}
    \cup
    UNION {{<<"Sell", p, i>> : i \in {j \in 1..Len(bk.asks[p]) :
                bk.asks[p][j].order_id_ = order_id}} : p \in DOMAIN bk.asks}

OrderAt(bk, loc) ==
    IF loc[1] = "Buy" THEN bk.bids[loc[2]][loc[3]] ELSE bk.asks[loc[2]][loc[3]]

\* CancelOrder without lines 283 and 289: a level is kept when its last order
\* is erased.
UnlinkKept(bk, loc, side, price) ==
    LET levels == IF side = "Sell" THEN bk.asks ELSE bk.bids
        left == [levels EXCEPT ![price] = EraseAt(levels[price], loc[3])]
    IN  IF price \notin DOMAIN levels THEN [bk EXCEPT !.ub = "out_of_range"]
        ELSE IF <<side, price>> # <<loc[1], loc[2]>> THEN [bk EXCEPT !.ub = "fault"]
        ELSE IF side = "Sell" THEN [bk EXCEPT !.asks = left]
        ELSE [bk EXCEPT !.bids = left]

\* Lines 279-290 of CancelOrder, for the side and price that the reads through
\* order return and the node loc that iterator names: std::map::at throws
\* when there is no such level, and std::list::erase is given an iterator of
\* another list when the level is not the node's own.
Unlink(bk, loc, side, price) ==
    LET levels == IF side = "Sell" THEN bk.asks ELSE bk.bids
        orders == EraseAt(levels[price], loc[3])
        left == IF orders = <<>> THEN EraseLevel(levels, price)
                ELSE [levels EXCEPT ![price] = orders]
    IN  IF price \notin DOMAIN levels THEN [bk EXCEPT !.ub = "out_of_range"]
        ELSE IF <<side, price>> # <<loc[1], loc[2]>> THEN [bk EXCEPT !.ub = "fault"]
        ELSE IF side = "Sell" THEN [bk EXCEPT !.asks = left]
        ELSE [bk EXCEPT !.bids = left]

\* OrderBook::CancelOrder on the book bk: the set of ways the call can end.
\* The registry entry is erased first (277); order and iterator are then read
\* from the erased entry (279-288).
CancelOrderOn(bk, order_id) ==
    IF order_id \notin bk.orders THEN {bk}
    ELSE LET erased == [bk EXCEPT !.orders = @ \ {order_id}]
         IN  {[erased EXCEPT !.ub = "fault"]}
             \cup UNION {{Unlink(erased, loc, read[1], read[2])
                    : read \in Dangling(<<OrderAt(bk, loc).side_,
                                          OrderAt(bk, loc).price_>>,
                                        Side \X Prices, bk)}
                    : loc \in Location(bk, order_id)}

\* OrderBook::MatchOrder, the modify operation, on the book bk.  The kind of
\* the existing order is read at line 299, after CancelOrder has released
\* both the registry entry and the order.
MatchOrderOn(bk, modify) ==
    IF modify.order_id_ \notin bk.orders THEN {bk}
    ELSE UNION {
            IF c.ub # "ok" THEN {c}
            ELSE {[c EXCEPT !.ub = "fault"]}
                 \cup UNION {UNION {
                        AddOrderTo(Diverge(c, type, OrderAt(bk, loc).order_type_),
                                   ToOrderPointer(modify, type))
                        : type \in Dangling(OrderAt(bk, loc).order_type_,
                                            OrderType, c)}
                        : loc \in Location(bk, modify.order_id_)}
            : c \in CancelOrderOn(bk, modify.order_id_)}

OrderModify(order_id, side, price, quantity) ==
    [order_id_ |-> order_id, side_ |-> side, price_ |-> price,
     quantity_ |-> quantity]

\* The last call: the operation, the id it was given, the case of the call,
\* and the order it submitted when the case is "added" or "known".  The cases
\* of AddOrder are "duplicate" (the id was registered), "unmatchable" (a
\* FillAndKill order with a fresh id, with nothing on the other side at a
\* price it accepts) and "added"; those of CancelOrder and MatchOrder are
\* "unknown" (the id was not registered) and "known".
NoOrder == [order_id_ |-> 0]
Submission(order_type, order_id, side, price, quantity) ==
    [order_type_ |-> order_type, order_id_ |-> order_id, side_ |-> side,
     price_ |-> price, quantity_ |-> quantity]
Call(op, order_id, case, order) ==
    [op |-> op, order_id_ |-> order_id, case |-> case,
     order |-> IF case \in {"added", "known"} THEN order ELSE NoOrder]

\* Nothing on the other side is priced so that an order of this side and
\* price could trade with it.
Unmatchable(side, price) ==
    IF side = "Buy"
    THEN DOMAIN asks_ = {} \/ \A p \in DOMAIN asks_ : price < p
    ELSE DOMAIN bids_ = {} \/ \A p \in DOMAIN bids_ : price > p

\* The keys of a std::map in the order it iterates them: std::greater for the
\* bids, std::less for the asks.
RECURSIVE Descending(_)
Descending(S) ==
    IF S = {} THEN <<>> ELSE <<MaxOf(S)>> \o Descending(S \ {MaxOf(S)})

RECURSIVE Ascending(_)
Ascending(S) ==
    IF S = {} THEN <<>> ELSE <<MinOf(S)>> \o Ascending(S \ {MinOf(S)})

LevelInfo(price, quantity) == [price_ |-> price, quantity_ |-> quantity]

OrderBookLevelInfos(bids, asks) == [bids_ |-> bids, asks_ |-> asks]

\* std::accumulate of lines 308-310: the running sum is a Quantity.
RECURSIVE Accumulate(_, _)
Accumulate(orders, running_sum) ==
    IF orders = <<>> THEN running_sum
    ELSE Accumulate(Tail(orders),
            (running_sum + Head(orders).remaining_quantity_) % QuantityRange)

CreateLevelInfos(price, orders) == LevelInfo(price, Accumulate(orders, 0))

\* OrderBook::GetOrderInfos on the book bk.
GetOrderInfosOf(bk) ==
    LET bid_prices == Descending(DOMAIN bk.bids)
        ask_prices == Ascending(DOMAIN bk.asks)
    IN  OrderBookLevelInfos(
            [i \in 1..Len(bid_prices) |->
                CreateLevelInfos(bid_prices[i], bk.bids[bid_prices[i]])],
            [i \in 1..Len(ask_prices) |->
                CreateLevelInfos(ask_prices[i], bk.asks[ask_prices[i]])])

\* What the calls that return no OrderBookLevelInfos leave in infos.
NoInfos == OrderBookLevelInfos(<<>>, <<>>)

Return(s) ==
    /\ infos' = NoInfos
    /\ bids_' = s.bids
    /\ asks_' = s.asks
    /\ orders_' = s.orders
    /\ trades' = s.trades
    /\ fills' = s.fills
    /\ ub' = s.ub
    /\ calls' = calls + 1

\* A call is made once the previous one has returned.
Callable == ub = "ok" /\ calls < MaxCalls

Init ==
    /\ bids_ = <<>>
    /\ asks_ = <<>>
    /\ orders_ = {}
    /\ trades = <<>>
    /\ fills = <<>>
    /\ last = Call("none", 0, "none", NoOrder)
    /\ ub = "ok"
    /\ calls = 0
    /\ infos = NoInfos

\* The ids a caller submits: ids are only ever compared for equality, so the
\* ids that are not registered are represented by the least of them.
Submitted == orders_ \cup {i \in OrderIds : \A j \in OrderIds \ orders_ : i <= j}

AddOrder(order_type, order_id, side, price, quantity) ==
    /\ Callable
    /\ order_id \in Submitted
    /\ \E s \in AddOrderTo(Book(bids_, asks_, orders_),
                           Order(order_type, order_id, side, price, quantity)) :
            Return(s)
    /\ last' = Call("AddOrder", order_id,
                    IF order_id \in orders_ THEN "duplicate"
                    ELSE IF order_type = "FillAndKill" /\ Unmatchable(side, price)
                    THEN "unmatchable" ELSE "added",
                    Submission(order_type, order_id, side, price, quantity))

CancelOrder(order_id) ==
    /\ Callable
    /\ order_id \in Submitted
    /\ \E s \in CancelOrderOn(Book(bids_, asks_, orders_), order_id) : Return(s)
    /\ last' = Call("CancelOrder", order_id,
                    IF order_id \in orders_ THEN "known" ELSE "unknown",
                    NoOrder)

MatchOrder(order_id, side, price, quantity) ==
    /\ Callable
    /\ order_id \in Submitted
    /\ \E s \in MatchOrderOn(Book(bids_, asks_, orders_),
                             OrderModify(order_id, side, price, quantity)) :
            Return(s)
    /\ last' = Call("MatchOrder", order_id,
                    IF order_id \in orders_ THEN "known" ELSE "unknown",
                    Submission("none", order_id, side, price, quantity))

\* GetOrderInfos is a const member: the book is left as it is.
GetOrderInfos ==
    /\ Callable
    /\ infos' = GetOrderInfosOf(Book(bids_, asks_, orders_))
    /\ UNCHANGED <<bids_, asks_, orders_>>
    /\ trades' = <<>>
    /\ fills' = <<>>
    /\ ub' = "ok"
    /\ calls' = calls + 1
    /\ last' = Call("GetOrderInfos", 0, "none", NoOrder)

Next ==
    \/ \E order_type \in OrderType, order_id \in OrderIds, side \in Side,
          price \in Prices, quantity \in Quantities :
            AddOrder(order_type, order_id, side, price, quantity)
    \/ \E order_id \in OrderIds : CancelOrder(order_id)
    \/ \E order_id \in OrderIds, side \in Side, price \in Prices,
          quantity \in Quantities :
            MatchOrder(order_id, side, price, quantity)
    \/ GetOrderInfos

Spec == Init /\ [][Next]_vars
(***************************************************************************)
(* The states and the steps the claims speak of.                           *)
(***************************************************************************)

\* The last call returned to its caller.
Returned == ub \in {"ok", "diverged"}

\* The book can be observed: the last call returned, or left by an exception.
Observable == ub \in {"ok", "diverged", "out_of_range", "logic_error"}

\* The orders queued on both sides, as <<side, price, position>>.
Nodes ==
    UNION {{<<"Buy", p, i>> : i \in 1..Len(bids_[p])} : p \in DOMAIN bids_}
    \cup UNION {{<<"Sell", p, i>> : i \in 1..Len(asks_[p])} : p \in DOMAIN asks_}

NodeOrder(n) == IF n[1] = "Buy" THEN bids_[n[2]][n[3]] ELSE asks_[n[2]][n[3]]

Crossed ==
    /\ DOMAIN bids_ # {}
    /\ DOMAIN asks_ # {}
    /\ MaxOf(DOMAIN bids_) >= MinOf(DOMAIN asks_)

\* C1: whenever the book can be observed between calls, a side is empty or
\* the highest bid price is strictly below the lowest ask price.
C1_NoSelfCrossing == Observable => ~Crossed

\* An AddOrder has traded and returned with orders left on both sides.
C1_Witness ==
    /\ last.op \in {"AddOrder", "MatchOrder"}
    /\ ub = "ok"
    /\ trades # <<>>
    /\ DOMAIN bids_ # {}
    /\ DOMAIN asks_ # {}
    /\ MaxOf(DOMAIN bids_) < MinOf(DOMAIN asks_)

\* C2: once the call that submitted it has returned, no FillAndKill order is
\* queued on either side or registered.
C2_FillAndKillNeverRests ==
    ub = "ok" => \A n \in Nodes : NodeOrder(n).order_type_ # "FillAndKill"

\* C9: an AddOrder whose id is already registered returns no trades and
\* changes neither the registry nor either side, so that every resting order
\* keeps its remaining quantity and its place.
C9_DuplicateAddIsNoOp ==
    [][(last'.op = "AddOrder" /\ last'.order_id_ \in orders_)
        => /\ bids_' = bids_
           /\ asks_' = asks_
           /\ orders_' = orders_
           /\ trades' = <<>>
           /\ fills' = <<>>
           /\ ub' = "ok"]_vars

\* An AddOrder was called with the id of an order that rests.
C9_Witness ==
    /\ last.op = "AddOrder"
    /\ last.case = "duplicate"
    /\ \E n \in Nodes : NodeOrder(n).order_id_ = last.order_id_

\* C10: an AddOrder of a FillAndKill order with a fresh id, when the other
\* side is empty or (Buy) the price is below the best ask or (Sell) above the
\* best bid, returns no trades and changes neither the registry nor either
\* side.
C10_UnmatchableFillAndKillRejected ==
    [][(last'.op = "AddOrder" /\ last'.case = "unmatchable")
        => /\ bids_' = bids_
           /\ asks_' = asks_
           /\ orders_' = orders_
           /\ trades' = <<>>
           /\ fills' = <<>>
           /\ ub' = "ok"]_vars

\* A FillAndKill order was turned away from a book that holds orders.
C10_Witness ==
    /\ last.op = "AddOrder"
    /\ last.case = "unmatchable"
    /\ last.order_id_ \notin orders_
    /\ orders_ # {}
(***************************************************************************)
(* What a call did to the orders, read from the step it took.              *)
(***************************************************************************)

\* The id of the order the call of this step submitted to the book, 0 if none.
Sub == IF last'.op \in {"AddOrder", "MatchOrder"} /\ last'.case \in {"added", "known"}
       THEN last'.order_id_ ELSE 0

IdsOf(queue) == [i \in 1..Len(queue) |-> queue[i].order_id_]
Keep(seq, S) == SelectSeq(seq, LAMBDA x : x \in S)
Elems(seq) == {seq[i] : i \in 1..Len(seq)}

\* The level of a side at a price before and after the step; the order that
\* a modify withdraws is not counted among those that rested before.
Level(levels, price) == IF price \in DOMAIN levels THEN levels[price] ELSE <<>>
PreLevel(side, price) ==
    SelectSeq(Level(IF side = "Buy" THEN bids_ ELSE asks_, price),
              LAMBDA o : o.order_id_ # Sub)
PostLevel(side, price) == Level(IF side = "Buy" THEN bids_' ELSE asks_', price)

Leg(fill, side) == IF side = "Buy" THEN fill.bid ELSE fill.ask

\* The quantity the first k - 1 fills of f gave to the order id of a side.
RECURSIVE FilledBefore(_, _, _, _)
FilledBefore(f, k, side, id) ==
    IF k <= 1 THEN 0
    ELSE FilledBefore(f, k - 1, side, id)
         + (IF Leg(f[k - 1], side).order_id_ = id THEN f[k - 1].quantity ELSE 0)

\* The orders that were queued ahead of the order id at its level when the
\* call began: those in front of it, or the whole level for the order the
\* call submits.
Ahead(side, price, id) ==
    LET queue == PreLevel(side, price)
        at == {i \in 1..Len(queue) : queue[i].order_id_ = id}
    IN  IF at = {} THEN Elems(queue)
        ELSE {queue[i] : i \in 1..((CHOOSE i \in at : TRUE) - 1)}

\* C3: at one price on one side the orders are filled in the order in which
\* they were queued: an order is given a fill only when every order queued
\* ahead of it at its level has been filled completely; a call leaves the
\* orders that stay in a level in the order they had; and the order a call
\* submits is the last of its level.
C3_PriceTimePriority ==
    [][ub' \in {"ok", "diverged", "logic_error"} =>
       /\ \A k \in 1..Len(fills') : \A side \in Side :
            \A a \in Ahead(side, Leg(fills'[k], side).price_,
                           Leg(fills'[k], side).order_id_) :
                FilledBefore(fills', k, side, a.order_id_) = a.remaining_quantity_
       /\ \A side \in Side, price \in Prices :
            LET post == IdsOf(PostLevel(side, price))
                pre == IdsOf(PreLevel(side, price))
            IN  /\ Keep(post, OrderIds \ {Sub}) = Keep(pre, Elems(post))
                /\ Sub \in Elems(post) => post[Len(post)] = Sub
      ]_vars

\* One call filled two orders of one bid level, or of one ask level, one
\* after the other.
C3_Witness ==
    /\ ub = "ok"
    /\ \E j \in 1..Len(fills) : \E i \in 1..(j - 1) : \E side \in Side :
        /\ Leg(fills[i], side).order_id_ # Leg(fills[j], side).order_id_
        /\ Leg(fills[i], side).price_ = Leg(fills[j], side).price_

\* The order with an id as the call of this step found it: the submitted
\* order with its full quantity, or the order as it rested.
StartRemaining(id) ==
    IF id = Sub THEN last'.order.quantity_
    ELSE LET n == CHOOSE n \in Nodes : NodeOrder(n).order_id_ = id
         IN  NodeOrder(n).remaining_quantity_

StartInitial(id) ==
    IF id = Sub THEN last'.order.quantity_
    ELSE LET n == CHOOSE n \in Nodes : NodeOrder(n).order_id_ = id
         IN  NodeOrder(n).initial_quantity_

\* C4: every fill is for at most the remaining quantity of either order, a
\* trade record carries the quantity of its fill on both legs, every fill
\* lowers the remaining quantity of both orders by exactly its quantity, and
\* so every queued order has 0 <= remaining <= initial, with initial minus
\* remaining the sum of the fills it was given.
C4_QuantityConservation ==
    [][ub' \in {"ok", "diverged", "logic_error"} =>
       /\ \A k \in 1..Len(fills') :
            /\ fills'[k].quantity <= fills'[k].bid.remaining_quantity_
            /\ fills'[k].quantity <= fills'[k].ask.remaining_quantity_
            /\ \A side \in Side :
                Leg(fills'[k], side).remaining_quantity_ =
                    StartRemaining(Leg(fills'[k], side).order_id_)
                    - FilledBefore(fills', k, side, Leg(fills'[k], side).order_id_)
       /\ \A k \in 1..Len(trades') :
            /\ trades'[k].bid_trade_.quanity_ = fills'[k].quantity
            /\ trades'[k].ask_trade_.quanity_ = fills'[k].quantity
       /\ ub' \in {"ok", "diverged"} =>
            \A n \in Nodes' :
                LET o == NodeOrder(n)'
                IN  /\ 0 <= o.remaining_quantity_
                    /\ o.remaining_quantity_ <= o.initial_quantity_
                    /\ o.initial_quantity_ = StartInitial(o.order_id_)
                    /\ o.remaining_quantity_ =
                         StartRemaining(o.order_id_)
                         - FilledBefore(fills', Len(fills') + 1, n[1], o.order_id_)
      ]_vars

\* An order rests partly filled after a call that traded.
C4_Witness ==
    /\ ub = "ok"
    /\ trades # <<>>
    /\ \E n \in Nodes :
        /\ 0 < NodeOrder(n).remaining_quantity_
        /\ NodeOrder(n).remaining_quantity_ < NodeOrder(n).initial_quantity_
\* C5: in every state a caller can observe after a call has returned, the
\* registry and the two sides hold the same ids: every queued order is
\* registered, every registered id is queued exactly once, at the side and
\* price its order records, and Size() is the number of queued orders.
C5_RegistryIndexConsistency ==
    Returned =>
        /\ {NodeOrder(n).order_id_ : n \in Nodes} = orders_
        /\ \A m, n \in Nodes :
            NodeOrder(m).order_id_ = NodeOrder(n).order_id_ => m = n
        /\ \A n \in Nodes :
            NodeOrder(n).side_ = n[1] /\ NodeOrder(n).price_ = n[2]
        /\ Size(orders_) = Cardinality(Nodes)

\* C6: when a CancelOrder call is over, a registered id is gone from the
\* registry and from every level, Size() is one less, and every other order
\* keeps its quantities, level and place; with an id that is not registered
\* nothing changes; no trades are produced.
C6_CancelIsComplete ==
    [][(last'.op = "CancelOrder" /\ Observable') =>
        /\ trades' = <<>>
        /\ fills' = <<>>
        /\ last'.case = "unknown" =>
            bids_' = bids_ /\ asks_' = asks_ /\ orders_' = orders_
        /\ last'.case = "known" =>
            /\ orders_' = orders_ \ {last'.order_id_}
            /\ Size(orders_') = Size(orders_) - 1
            /\ \A side \in Side, price \in Prices :
                PostLevel(side, price) =
                    SelectSeq(PreLevel(side, price),
                              LAMBDA o : o.order_id_ # last'.order_id_)
      ]_vars

\* The levels an order with this id rests at with other orders behind it.
RestsAheadAt(side, price, id) ==
    LET queue == Level(IF side = "Buy" THEN bids_ ELSE asks_, price)
    IN  \E i \in 1..(Len(queue) - 1) : queue[i].order_id_ = id

\* C7: a modify of an order that rests ahead of others at its level, to the
\* same side and price, that is not matched away, leaves the order at the
\* back of that level, behind every order that rested there.  Stated of the
\* calls in which every read returned the stale value.
C7_ModifyLosesTimePriority ==
    [][(/\ last'.op = "MatchOrder"
        /\ last'.case = "known"
        /\ ub' = "ok"
        /\ RestsAheadAt(last'.order.side_, last'.order.price_, last'.order_id_)
        /\ \A k \in 1..Len(fills') : \A side \in Side :
              Leg(fills'[k], side).order_id_ # last'.order_id_)
        => IdsOf(PostLevel(last'.order.side_, last'.order.price_)) =
              Append(IdsOf(PreLevel(last'.order.side_, last'.order.price_)),
                     last'.order_id_)
      ]_vars

\* What CancelOrder(id) followed by AddOrder(kind, id, side, price, quantity)
\* yields on the book before the step, kind being that of the order
\* registered under id.
CancelThenAdd(modify) ==
    UNION {UNION {AddOrderTo(c, ToOrderPointer(modify, OrderAt(Book(bids_, asks_, orders_), loc).order_type_))
                    : loc \in Location(Book(bids_, asks_, orders_), modify.order_id_)}
            : c \in {c \in CancelOrderOn(Book(bids_, asks_, orders_), modify.order_id_)
                        : c.ub = "ok"}}

\* C8: a modify of a registered id that returns leaves the book, and returns
\* the trades, of CancelOrder(id) followed by AddOrder with the kind of the
\* existing order; a modify of an id that is not registered returns no
\* trades and changes nothing.
C8_ModifyIsCancelThenAdd ==
    [][(last'.op = "MatchOrder" /\ Returned') =>
        /\ last'.case = "unknown" =>
            /\ bids_' = bids_ /\ asks_' = asks_ /\ orders_' = orders_
            /\ trades' = <<>>
        /\ last'.case = "known" =>
            \E r \in CancelThenAdd(OrderModify(last'.order_id_, last'.order.side_,
                                               last'.order.price_,
                                               last'.order.quantity_)) :
                /\ bids_' = r.bids
                /\ asks_' = r.asks
                /\ orders_' = r.orders
                /\ trades' = r.trades
      ]_vars

(***************************************************************************)
(* The trade records, the quantities that rest and the levels.             *)
(***************************************************************************)

\* C11: after a call that returned, the k-th trade record has a bid leg with
\* the id and the limit price of the Buy order of the k-th fill and an ask
\* leg with the id and the limit price of the Sell order of that fill, and
\* both legs carry the quantity by which the two orders were filled; this
\* includes the legs of orders that the fill completed and the loop popped.
C11_TradeLegSemantics ==
    Returned =>
        /\ Len(trades) = Len(fills)
        /\ \A k \in 1..Len(trades) :
            /\ fills[k].bid.side_ = "Buy"
            /\ fills[k].ask.side_ = "Sell"
            /\ trades[k].bid_trade_.order_id_ = fills[k].bid.order_id_
            /\ trades[k].bid_trade_.price_ = fills[k].bid.price_
            /\ trades[k].ask_trade_.order_id_ = fills[k].ask.order_id_
            /\ trades[k].ask_trade_.price_ = fills[k].ask.price_
            /\ trades[k].bid_trade_.quanity_ = fills[k].quantity
            /\ trades[k].ask_trade_.quanity_ = fills[k].quantity

\* C12: after a call that returned, every queued order has a remaining
\* quantity above zero, whatever quantities the calls were given.
C12_FilledOrdersNeverRest ==
    Returned => \A n \in Nodes : NodeOrder(n).remaining_quantity_ > 0

\* C13: whenever the book can be observed between calls, every price that
\* has a level on either side has at least one order queued at it.
C13_NoEmptyLevel ==
    Observable =>
        /\ \A p \in DOMAIN bids_ : bids_[p] # <<>>
        /\ \A p \in DOMAIN asks_ : asks_[p] # <<>>

\* A call filled the last order of an ask level completely, that level is
\* gone, and other levels are left on both sides.
C13_Witness ==
    /\ ub = "ok"
    /\ DOMAIN bids_ # {}
    /\ DOMAIN asks_ # {}
    /\ \E k \in 1..Len(fills) :
        /\ fills[k].ask.remaining_quantity_ = fills[k].quantity
        /\ fills[k].ask.price_ \notin DOMAIN asks_

\* C14: the matching loop never asks Order::Fill for more than an order has
\* left, so no call ends with the logic_error of Order::Fill; and Order::Fill
\* asked for more than an order has left throws and leaves the order as it
\* was.
C14_InvalidFillUnreachable ==
    /\ ub # "logic_error"
    /\ \A k \in 1..Len(fills) :
        /\ fills[k].quantity <= fills[k].bid.remaining_quantity_
        /\ fills[k].quantity <= fills[k].ask.remaining_quantity_
    /\ \A n \in Nodes : \A quantity \in 0..(MaxQty + 1) :
        quantity > NodeOrder(n).remaining_quantity_ =>
            Fill(NodeOrder(n), quantity) = [thrown |-> TRUE, order |-> NodeOrder(n)]

\* A call matched two orders with different remaining quantities and left
\* one of them queued, partly filled.
C14_Witness ==
    /\ ub = "ok"
    /\ \E k \in 1..Len(fills) :
        fills[k].bid.remaining_quantity_ # fills[k].ask.remaining_quantity_
    /\ \E n \in Nodes :
        /\ 0 < NodeOrder(n).remaining_quantity_
        /\ NodeOrder(n).remaining_quantity_ < NodeOrder(n).initial_quantity_

(***************************************************************************)
(* The depth query.                                                        *)
(***************************************************************************)

\* The sum of the remaining quantities of the orders of a queue.
RECURSIVE SumRemaining(_)
SumRemaining(queue) ==
    IF queue = <<>> THEN 0
    ELSE Head(queue).remaining_quantity_ + SumRemaining(Tail(queue))

\* The level infos list each price of the levels once, with the sum of the
\* remaining quantities queued at it.
ListsLevels(level_infos, levels) ==
    /\ Len(level_infos) = Cardinality(DOMAIN levels)
    /\ {level_infos[i].price_ : i \in 1..Len(level_infos)} = DOMAIN levels
    /\ \A i \in 1..Len(level_infos) :
        level_infos[i].quantity_ = SumRemaining(levels[level_infos[i].price_])

\* C15: GetOrderInfos returns one entry per bid price, in strictly descending
\* order of price, and one per ask price, in strictly ascending order, each
\* with the sum of the remaining quantities of the orders queued at that
\* price, and leaves the registry, both sides and every order as they were.
C15_GetOrderInfos ==
    [][last'.op = "GetOrderInfos" =>
        /\ bids_' = bids_
        /\ asks_' = asks_
        /\ orders_' = orders_
        /\ ListsLevels(infos'.bids_, bids_)
        /\ ListsLevels(infos'.asks_, asks_)
        /\ \A i \in 1..(Len(infos'.bids_) - 1) :
            infos'.bids_[i].price_ > infos'.bids_[i + 1].price_
        /\ \A i \in 1..(Len(infos'.asks_) - 1) :
            infos'.asks_[i].price_ < infos'.asks_[i + 1].price_
      ]_vars

(***************************************************************************)
(* One incoming order against the resting ones.                            *)
(***************************************************************************)

Opposite(side) == IF side = "Buy" THEN "Sell" ELSE "Buy"

\* The queued orders of a side that an order of the other side at a price
\* can trade with.
Reached(side, price) ==
    {n \in Nodes : /\ n[1] = side
                   /\ IF side = "Sell" THEN n[2] <= price ELSE n[2] >= price}

\* C16: an AddOrder of a GoodTillCancel order with a fresh id and quantity q
\* that reaches exactly one queued order of the other side, with remaining
\* quantity r > q, returns exactly one trade, of quantity q, whose legs carry
\* the ids and prices of the two orders; the incoming order is neither queued
\* nor registered afterwards, and the resting order is still the front of its
\* level, with remaining quantity r - q.
C16_PartialFillOfRestingOrder ==
    [][(/\ last'.op = "AddOrder"
        /\ last'.case = "added"
        /\ last'.order.order_type_ = "GoodTillCancel"
        /\ Returned'
        /\ \E n \in Nodes :
            /\ Reached(Opposite(last'.order.side_), last'.order.price_) = {n}
            /\ NodeOrder(n).remaining_quantity_ > last'.order.quantity_)
        => LET n == CHOOSE n \in Nodes :
                        Reached(Opposite(last'.order.side_), last'.order.price_) = {n}
               resting == NodeOrder(n)
               incoming == last'.order
               buy == IF incoming.side_ = "Buy" THEN incoming ELSE resting
               sell == IF incoming.side_ = "Sell" THEN incoming ELSE resting
               left == [resting EXCEPT !.remaining_quantity_ = @ - incoming.quantity_]
           IN  /\ trades' = <<Trade(TradeInfo(buy.order_id_, buy.price_, incoming.quantity_),
                                    TradeInfo(sell.order_id_, sell.price_, incoming.quantity_))>>
               /\ orders_' = orders_
               /\ Size(orders_') = Size(orders_)
               /\ IF incoming.side_ = "Buy"
                  THEN /\ bids_' = bids_
                       /\ asks_' = [asks_ EXCEPT ![n[2]][n[3]] = left]
                  ELSE /\ asks_' = asks_
                       /\ bids_' = [bids_ EXCEPT ![n[2]][n[3]] = left]
               /\ n[3] = 1
      ]_vars

(***************************************************************************)
(* The matching loop: its end, its order and its quantities.               *)
(***************************************************************************)

\* The call of this step ran the matching loop: AddOrder queued the order
\* it was given.
LoopStarted == last'.op = "AddOrder" /\ last'.case = "added"

\* C17: a call that runs the matching loop reaches the exit of the loop and
\* returns; every iteration completes, and so removes, at least one of the
\* two orders it fills, so that the iterations and the trades of the call
\* are no more than the orders queued when the loop starts; and the loop
\* leaves a level once the level has been emptied and erased.
C17_MatchingLoopTerminates ==
    [][LoopStarted =>
        /\ Returned'
        /\ Len(trades') = Len(fills')
        /\ Len(fills') <= Cardinality(Nodes) + 1
        /\ \A k \in 1..Len(fills') :
            \/ fills'[k].quantity = fills'[k].bid.remaining_quantity_
            \/ fills'[k].quantity = fills'[k].ask.remaining_quantity_
        /\ \A k \in 1..(Len(fills') - 1) : \A side \in Side :
            Leg(fills'[k], side).remaining_quantity_ = fills'[k].quantity
                => Leg(fills'[k + 1], side).order_id_ # Leg(fills'[k], side).order_id_
      ]_vars

\* The orders queued when the matching loop of this step starts, by id, side
\* and price: those that rested, but for the one a modify withdraws, and the
\* order the call submits.
StartOrders ==
    {[order_id_ |-> NodeOrder(n).order_id_, side_ |-> n[1], price_ |-> n[2]]
        : n \in {m \in Nodes : NodeOrder(m).order_id_ # Sub}}
    \cup (IF Sub = 0 THEN {}
          ELSE {[order_id_ |-> Sub, side_ |-> last'.order.side_,
                 price_ |-> last'.order.price_]})

\* On a side, the price p is strictly better than the price q.
Better(side, p, q) == IF side = "Buy" THEN p > q ELSE p < q

\* One of the first k - 1 fills of f completed, and so removed, the order id.
CompletedBefore(f, k, side, id) ==
    \E j \in 1..(k - 1) :
        /\ Leg(f[j], side).order_id_ = id
        /\ f[j].quantity = Leg(f[j], side).remaining_quantity_

\* C18: in a call that returns, an order is filled only when every order
\* queued on its side at a strictly better price has been completed and
\* removed, so the levels of the other side are consumed from the best price
\* on; every fill is between the order the call submitted and an order that
\* rested, no resting order is filled twice, and there is one trade record
\* per fill.
C18_PricePriorityAcrossLevels ==
    [][Returned' =>
        /\ Len(trades') = Len(fills')
        /\ \A k \in 1..Len(fills') :
            /\ \A side \in Side : \A o \in StartOrders :
                (o.side_ = side
                 /\ Better(side, o.price_, Leg(fills'[k], side).price_))
                    => CompletedBefore(fills', k, side, o.order_id_)
            /\ Leg(fills'[k], last'.order.side_).order_id_ = Sub
            /\ \A j \in 1..(k - 1) :
                /\ Leg(fills'[j], Opposite(last'.order.side_)).order_id_
                     # Leg(fills'[k], Opposite(last'.order.side_)).order_id_
                /\ ~Better(Opposite(last'.order.side_),
                           Leg(fills'[k], Opposite(last'.order.side_)).price_,
                           Leg(fills'[j], Opposite(last'.order.side_)).price_)
      ]_vars

\* One call filled orders of two levels of one side.
C18_Witness ==
    /\ ub = "ok"
    /\ \E j, k \in 1..Len(fills) : \E side \in Side :
        /\ j < k
        /\ Leg(fills[j], side).price_ # Leg(fills[k], side).price_
        /\ fills[j].quantity > 0
        /\ fills[k].quantity > 0

\* C19: after a call that returned, every trade record carries a quantity above zero on both legs, and
\* every fill is for a quantity above zero, so that it lowers the remaining
\* quantity of both of its orders.
C19_EveryFillDecreasesRemaining ==
    Returned =>
        /\ \A k \in 1..Len(trades) :
            /\ trades[k].bid_trade_.quanity_ > 0
            /\ trades[k].ask_trade_.quanity_ > 0
        /\ \A k \in 1..Len(fills) :
            /\ fills[k].quantity > 0
            /\ Fill(fills[k].bid, fills[k].quantity).order.remaining_quantity_
                 < fills[k].bid.remaining_quantity_
            /\ Fill(fills[k].ask, fills[k].quantity).order.remaining_quantity_
                 < fills[k].ask.remaining_quantity_

\* The orders queued on the side of a leg of the k-th fill that come before
\* the leg's order when the loop starts: those at a strictly better price and
\* those ahead of it at its own level.
Before(k, side) ==
    {o \in StartOrders :
        /\ o.side_ = side
        /\ o.order_id_ # Leg(fills'[k], side).order_id_
        /\ \/ Better(side, o.price_, Leg(fills'[k], side).price_)
           \/ o.order_id_ \in {a.order_id_ :
                  a \in Ahead(side, Leg(fills'[k], side).price_,
                              Leg(fills'[k], side).order_id_)}}

\* C20: in a call that returns, every trade record has a bid leg priced at or
\* above its ask leg; the two orders of every fill are, when they are filled,
\* the first of the best bid level and the first of the best ask level, every
\* order that came before either having been completed and removed, and the
\* bid's limit price is at or above the ask's; and an AddOrder of an order
\* whose price does not reach the best price of the other side returns no
\* trades.
C20_TradesOnlyOnCross ==
    [][Returned' =>
        /\ \A k \in 1..Len(trades') :
            trades'[k].bid_trade_.price_ >= trades'[k].ask_trade_.price_
        /\ \A k \in 1..Len(fills') :
            /\ fills'[k].bid.price_ >= fills'[k].ask.price_
            /\ \A side \in Side : \A o \in Before(k, side) :
                CompletedBefore(fills', k, side, o.order_id_)
        /\ (/\ last'.op = "AddOrder"
            /\ last'.case = "added"
            /\ Unmatchable(last'.order.side_, last'.order.price_))
            => trades' = <<>> /\ fills' = <<>>
      ]_vars
====
